---- MODULE Spec2Model ----
(***************************************************************************)
(* Model of python_wikibase/data_model/entity.py: the Entity base class    *)
(* (create / get / delete) with its Item and Property subclasses, run      *)
(* against a Wikibase remote store reached through api.entity.add / get /  *)
(* remove.                                                                 *)
(*                                                                         *)
(* Python objects are heap cells: `objs` is the sequence of Entity         *)
(* instances the caller holds, an instance's reference is its index.  An   *)
(* attribute object (Label, Description, Aliases, Claims) carries in       *)
(* `owner` the reference of the instance it was built or copied for, so    *)
(* two instances share an attribute object exactly when the same `owner`   *)
(* shows up in both.                                                        *)
(***************************************************************************)
EXTENDS Integers, Sequences, FiniteSets, TLC

\* ------------------------------------------------------------------ bounds
InitObjs == 2      \* Entity instances the caller constructs at the start
MaxObj == 3        \* Entity instances alive at once
MaxNum == 2        \* highest numeric id the remote store hands out
MaxBatch == 2      \* longest entity_ids list passed to get()
MaxCalls == 3      \* create / get / delete calls in one run

\* ------------------------------------------------------------ input domains
Labels == {"a", "b"}
Languages == {"en", "de"}
EntityTypes == {"item", "property"}
DataTypeArgs == {"StringValue", "Quantity", "Bogus"}
AttributeNames == {"labels", "descriptions", "aliases", "claims", "datatype"}

\* Python None for a string-valued field, and for entity_id (a character
\* sequence; remote ids are never empty, so <<>> stands for None only).
None == "None"
NoId == <<>>

\* ------------------------------------------------- utils.data_types tables
class_to_data_type ==
    [c \in {"StringValue", "Quantity"} |->
        IF c = "StringValue" THEN "string" ELSE "quantity"]

data_type_to_class ==
    [d \in {"string", "quantity"} |->
        IF d = "string" THEN "StringValue" ELSE "Quantity"]

\* ------------------------------------------------------------ id strings
DigitChar(d) ==
    CASE d = 0 -> "0" [] d = 1 -> "1" [] d = 2 -> "2" [] d = 3 -> "3"
      [] d = 4 -> "4" [] d = 5 -> "5" [] d = 6 -> "6" [] d = 7 -> "7"
      [] d = 8 -> "8" [] d = 9 -> "9"

RECURSIVE NatToStr(_)
NatToStr(n) ==
    IF n < 10 THEN <<DigitChar(n)>>
    ELSE Append(NatToStr(n \div 10), DigitChar(n % 10))

IdPrefix(entity_type) == IF entity_type = "item" THEN "Q" ELSE "P"

MakeId(entity_type, n) == <<IdPrefix(entity_type)>> \o NatToStr(n)

\* every id the remote store can know within the bound
AllIds == {MakeId(t, n) : t \in EntityTypes, n \in 1..MaxNum}

\* ---------------------------------------------------------------- state
VARIABLES
    objs,      \* heap of Entity instances (sequence of records)
    language,  \* working language the instances were constructed with
    store,     \* remote store: id -> stored entity, for the ids that exist
    nextNum,   \* remote store: next numeric id per entity type
    created,   \* id -> label it was created with, for ids made by create()
    ncalls,    \* create / get / delete calls made so far
    last       \* the last call: operation, arguments, outcome

vars == <<objs, language, store, nextNum, created, ncalls, last>>

\* ---------------------------------------------------- attribute objects
Absent == [present |-> FALSE, owner |-> 0, entity_id |-> NoId, raw |-> {}]

\* Label() / Description() / Aliases() / Claims() .unmarshal(entity_id, raw)
\* called to fill a field of instance `ref`
unmarshal(ref, entity_id, raw) ==
    [present |-> TRUE, owner |-> ref, entity_id |-> entity_id, raw |-> raw]

\* Entity.__init__
NewEntity(entity_type) ==
    [entity_type |-> entity_type,
     entity_id   |-> NoId,
     label       |-> Absent,
     description |-> Absent,
     aliases     |-> Absent,
     claims      |-> Absent,
     data_type   |-> None]

AttrFields == {"label", "description", "aliases", "claims"}

\* copy.deepcopy of one attribute object for the instance `ref`
CopyAttr(a, ref) == IF a.present THEN [a EXCEPT !.owner = ref] ELSE a

\* copy.copy in place of copy.deepcopy: the attribute objects are shared
shallowcopy(o, ref) == o

\* copy.deepcopy(self): every field copied, every attribute object a new one
deepcopy(o, ref) ==
    [o EXCEPT !.label       = CopyAttr(o.label, ref),
              !.description = CopyAttr(o.description, ref),
              !.aliases     = CopyAttr(o.aliases, ref),
              !.claims      = CopyAttr(o.claims, ref)]

\* ------------------------------------------------------------ remote store
\* the entity a successful api.entity.add stores and returns under "entity"
AddedEntity(entity_type, content) ==
    [id           |-> MakeId(entity_type, nextNum[entity_type]),
     type         |-> entity_type,
     labels       |-> content.labels,
     datatype     |-> IF "datatype" \in DOMAIN content
                      THEN content.datatype ELSE None,
     descriptions |-> {},
     aliases      |-> {},
     claims       |-> {}]

\* the entity of the store that this library did not create: a property of
\* a datatype python_wikibase has no class for
PreProperty ==
    [id |-> MakeId("property", 1), type |-> "property",
     labels |-> {[language |-> "en", value |-> "b"]},
     datatype |-> "url",
     descriptions |-> {"d"}, aliases |-> {"s"}, claims |-> {"c"}]

\* the record of a call: the method, the instance it was called on, its
\* arguments (entity_ids and attributes of get, data_type of Property.create),
\* the remote store's answer (`remote`, and for a fetch the `order` of the
\* entities in the response), the number of remote calls made, and the
\* exception raised (`err`, with the id a NotFoundError names) or the value
\* returned (`ret`, references into objs)
NoCall == [op |-> "none", self |-> 0, ids |-> <<>>, attributes |-> {},
           data_type |-> None, remote |-> "none", order |-> <<>>,
           calls |-> 0, err |-> "none", errId |-> NoId, ret |-> <<>>,
           marshalled |-> <<>>]

Init ==
    /\ objs \in [1..InitObjs -> {NewEntity(t) : t \in EntityTypes}]
    /\ language \in Languages
    /\ store = (MakeId("property", 1) :> PreProperty)
    /\ nextNum = [t \in EntityTypes |-> IF t = "item" THEN 1 ELSE 2]
    /\ created = <<>>
    /\ ncalls = 0
    /\ last = NoCall

\* ------------------------------------------------------------------ create
\* the labels part of the payload both create() methods build
LabelContent(label) == {[language |-> language, value |-> label]}

\* the ApiError of the remote call let through to the caller
ReraisedRaw(op) == "ApiError"

\* the except-clauses around the three remote calls: an ApiError raised by
\* api.entity.add or api.entity.remove is re-raised as EditError, one raised
\* by api.entity.get as SearchError
Reraised(op) == IF op = "get" THEN "SearchError" ELSE "EditError"

\* create() that leaves description, aliases and claims as they were
CreatedWithoutAttributes(self, o, entity) ==
    [o EXCEPT !.entity_id = entity.id,
              !.label     = unmarshal(self, entity.id, entity.labels)]

\* the fields _create saves on instance `self` from the entity the store
\* returned: entity_id, label, and empty description, aliases and claims
Created(self, o, entity) ==
    [o EXCEPT !.entity_id   = entity.id,
              !.label       = unmarshal(self, entity.id, entity.labels),
              !.description = unmarshal(self, entity.id, {}),
              !.aliases     = unmarshal(self, entity.id, {}),
              !.claims      = unmarshal(self, entity.id, {})]

\* Entity._create, run on instance `self` whose fields are `o` at entry;
\* `fail` is the remote store refusing the request (ApiError)
Entity_create(op, self, o, label, content, fail) ==
    /\ nextNum[o.entity_type] <= MaxNum
    /\ IF fail
       THEN /\ objs' = [objs EXCEPT ![self] = o]
            /\ last' = [NoCall EXCEPT !.op = op, !.self = self,
                                      !.data_type = o.data_type,
                                      !.remote = "ApiError", !.calls = 1,
                                      !.err = Reraised(op)]
            /\ UNCHANGED <<store, nextNum, created>>
       ELSE LET entity == AddedEntity(o.entity_type, content)
                id == entity.id
            IN  /\ store' = (id :> entity) @@ store
                /\ nextNum' = [nextNum EXCEPT ![o.entity_type] = @ + 1]
                /\ created' = (id :> label) @@ created
                /\ objs' = [objs EXCEPT ![self] = Created(self, o, entity)]
                /\ last' = [NoCall EXCEPT !.op = op, !.self = self,
                                          !.data_type = o.data_type,
                                          !.remote = "ok", !.calls = 1,
                                          !.ret = <<self>>]
    /\ UNCHANGED language

\* one more call of a public method
Call ==
    /\ ncalls < MaxCalls
    /\ ncalls' = ncalls + 1

\* Item.create
Item_create(self, label, fail) ==
    /\ Call
    /\ objs[self].entity_type = "item"
    /\ Entity_create("Item.create", self, objs[self], label,
                     [labels |-> LabelContent(label)], fail)

\* no check of the data_type argument
ValidDataTypeAny(data_type) == TRUE

\* the check Property.create makes of its data_type argument
ValidDataType(data_type) == data_type \in DOMAIN class_to_data_type

\* Property.create; the lookup of class_to_data_type[data_type] for the
\* payload raises KeyError on a name the table lacks
Property_create(self, label, data_type, fail) ==
    /\ Call
    /\ objs[self].entity_type = "property"
    /\ IF ~ValidDataType(data_type) \/ data_type \notin DOMAIN class_to_data_type
       THEN /\ last' = [NoCall EXCEPT
                          !.op = "Property.create", !.self = self,
                          !.data_type = data_type,
                          !.err = IF ~ValidDataType(data_type)
                                  THEN "ValueError" ELSE "KeyError"]
            /\ objs' = IF ~ValidDataType(data_type) THEN objs
                       ELSE [objs EXCEPT ![self].data_type = data_type]
            /\ UNCHANGED <<language, store, nextNum, created>>
       ELSE Entity_create("Property.create", self,
                          [objs[self] EXCEPT !.data_type = data_type], label,
                          [labels |-> LabelContent(label),
                           datatype |-> class_to_data_type[data_type]], fail)

\* --------------------------------------------------------------------- get
\* api.entity.get: the envelope the store returns for one requested id,
\* cut down to the requested attributes
Envelope(id, attributes) ==
    IF id \notin DOMAIN store
    THEN [k \in {"id", "missing"} |-> IF k = "id" THEN id ELSE <<>>]
    ELSE LET full == store[id]
             keys == {"id", "type"} \cup
                     {k \in attributes : k = "datatype" => full.type = "property"}
         IN  [k \in keys |-> full[k]]

\* r["entities"].items() for a response listing the ids in `order`
Entities(order, attributes) ==
    [i \in 1..Len(order) |->
        [key |-> order[i], entity |-> Envelope(order[i], attributes)]]

\* a test of the value of "missing" (the store sends "") instead of the key
IsMissingTruthy(entity) ==
    "missing" \in DOMAIN entity /\ entity["missing"] # <<>>

\* the test get() makes for an id the store does not have
IsMissing(entity) == "missing" \in DOMAIN entity

\* the test on entity_id the wrong way round
NeedsIdInverted(entity_ids, o) == entity_ids = <<>> /\ o.entity_id # NoId

\* the test get() makes before it asks for the instance's own id
NeedsId(entity_ids, o) == entity_ids = <<>> /\ o.entity_id = NoId

\* a NotFoundError whose message leaves the id out
RaiseUnnamed(h, err, errId) ==
    [objs |-> SubSeq(h, 1, Len(objs)), err |-> err, errId |-> NoId, ret |-> <<>>]

\* an exception leaves get(): the copies made so far are unreachable
Raise(h, err, errId) ==
    [objs |-> SubSeq(h, 1, Len(objs)), err |-> err, errId |-> errId, ret |-> <<>>]

\* which instance an envelope is decoded into: self or a fresh deepcopy
Resolve(self, h, entity_id) ==
    IF h[self].entity_id = entity_id THEN self ELSE Len(h) + 1

\* the steps of the body of the for loop of get() for one envelope; `e` is
\* the instance being filled and `o` its fields so far.
\* The label: the key tested is "lables", the key read is "labels"
DecodeLabel(e, o, entity) ==
    IF "lables" \in DOMAIN entity
    THEN [o EXCEPT !.label = unmarshal(e, o.entity_id, entity["labels"])]
    ELSE o

\* data_type_to_class[entity["datatype"]] raises KeyError
DataTypeRaises(o, entity) ==
    /\ o.entity_type = "property"
    /\ "datatype" \in DOMAIN entity
    /\ entity["datatype"] \notin DOMAIN data_type_to_class

\* the datatype decoded whatever the kind of the instance
DecodeDataTypeAnyKind(o, entity) ==
    IF "datatype" \in DOMAIN entity /\ entity["datatype"] \in DOMAIN data_type_to_class
    THEN [o EXCEPT !.data_type = data_type_to_class[entity["datatype"]]]
    ELSE o

\* the data_type of a Property
DecodeDataType(o, entity) ==
    IF o.entity_type = "property" /\ "datatype" \in DOMAIN entity
    THEN [o EXCEPT !.data_type = data_type_to_class[entity["datatype"]]]
    ELSE o

\* description, aliases and claims each replaced: by the envelope's value if
\* its key is in the envelope, by None if not
DecodeOtherClearing(e, o, entity) ==
    [o EXCEPT
       !.description = IF "descriptions" \in DOMAIN entity
                       THEN unmarshal(e, o.entity_id, entity["descriptions"])
                       ELSE Absent,
       !.aliases     = IF "aliases" \in DOMAIN entity
                       THEN unmarshal(e, o.entity_id, entity["aliases"])
                       ELSE Absent,
       !.claims      = IF "claims" \in DOMAIN entity
                       THEN unmarshal(e, o.entity_id, entity["claims"])
                       ELSE Absent]

\* description, aliases and claims, each if its key is in the envelope
DecodeOther(e, o, entity) ==
    [o EXCEPT
       !.description = IF "descriptions" \in DOMAIN entity
                       THEN unmarshal(e, o.entity_id, entity["descriptions"])
                       ELSE @,
       !.aliases     = IF "aliases" \in DOMAIN entity
                       THEN unmarshal(e, o.entity_id, entity["aliases"])
                       ELSE @,
       !.claims      = IF "claims" \in DOMAIN entity
                       THEN unmarshal(e, o.entity_id, entity["claims"])
                       ELSE @]

\* the for loop of get() from envelope i on; h is the heap so far and
\* entities the list built so far
RECURSIVE DecodeLoop(_, _, _, _, _)
DecodeLoop(self, items, i, h, entities) ==
    IF i > Len(items)
    THEN [objs |-> h, err |-> "none", errId |-> NoId, ret |-> entities]
    ELSE LET entity_id == items[i].key
             entity == items[i].entity
         IN  IF IsMissing(entity)
             THEN Raise(h, "NotFoundError", entity_id)
             ELSE LET e  == Resolve(self, h, entity_id)
                      h0 == IF e = self THEN h
                            ELSE Append(h, deepcopy(h[self], e))
                      o1 == [h0[e] EXCEPT !.entity_id = entity["id"]]
                      o2 == DecodeLabel(e, o1, entity)
                  IN  IF DataTypeRaises(o2, entity)
                      THEN Raise([h0 EXCEPT ![e] = o2], "KeyError", NoId)
                      ELSE DecodeLoop(self, items, i + 1,
                              [h0 EXCEPT ![e] =
                                  DecodeOther(e, DecodeDataType(o2, entity), entity)],
                              Append(entities, e))

\* what the remote store does with a fetch: it answers with success, raises
\* ApiError, or answers without the success marker or with success = 0
FetchOutcomes == {"ok", "ApiError", "no success", "success 0"}

\* the response r of api.entity.get when it returns one
Response(outcome, order, attributes) ==
    CASE outcome = "ok" ->
           [success |-> 1, entities |-> Entities(order, attributes)]
      [] outcome = "success 0" ->
           [success |-> 0, entities |-> Entities(order, attributes)]
      [] outcome = "no success" ->
           [entities |-> Entities(order, attributes)]

\* one api.entity.get call for each id of the list
FetchesPerId(ids) == Len(ids)

\* the number of api.entity.get calls get() makes for the list of ids: the
\* whole list goes into one call
Fetches(ids) == 1

\* a test of the success marker that accepts any value of it
UnsuccessfulKeyOnly(r) == "success" \notin DOMAIN r

\* the test get() makes of the success marker
Unsuccessful(r) == "success" \notin DOMAIN r \/ r["success"] # 1

\* Entity.get(entity_ids, attributes); entity_ids = <<>> is the default None
\* (or an empty list), attributes is the set of requested attributes (the
\* default None asks for all of them); `outcome` and `order` are the remote
\* store's answer and the order of its "entities" dictionary
Entity_get(self, entity_ids, attributes, outcome, order) ==
    LET call == [NoCall EXCEPT !.op = "get", !.self = self, !.ids = entity_ids,
                               !.attributes = attributes]
    IN
    /\ Call
    /\ IF NeedsId(entity_ids, objs[self])
       THEN /\ last' = [call EXCEPT !.err = "ValueError"]
            /\ objs' = objs
       ELSE LET ids == IF entity_ids = <<>> THEN <<objs[self].entity_id>>
                       ELSE entity_ids
            IN  /\ {order[i] : i \in 1..Len(order)} = {ids[i] : i \in 1..Len(ids)}
                /\ IF \/ outcome = "ApiError"
                      \/ Unsuccessful(Response(outcome, order, attributes))
                   THEN /\ last' = [call EXCEPT !.remote = outcome,
                                                !.calls = Fetches(ids),
                                                !.err = IF outcome = "ApiError"
                                                        THEN Reraised("get")
                                                        ELSE "SearchError"]
                        /\ objs' = objs
                   ELSE LET r == Response(outcome, order, attributes)
                            res == DecodeLoop(self, r.entities, 1, objs, <<>>)
                        IN  /\ Len(res.objs) <= MaxObj
                            /\ objs' = res.objs
                            /\ last' = [call EXCEPT !.remote = outcome, !.order = order,
                                                    !.calls = Fetches(ids),
                                                    !.err = res.err,
                                                    !.errId = res.errId,
                                                    !.ret = res.ret]
    /\ UNCHANGED <<language, store, nextNum, created>>

\* ------------------------------------------------------------------ delete
\* api.entity.remove(title) finds the page: the namespace and id of the
\* title name an entity of the store
PageExists(title) ==
    /\ Tail(title) \in DOMAIN store
    /\ Head(title) = (IF store[Tail(title)].type = "item"
                      THEN "Item:" ELSE "Property:")

\* the title delete() builds for instance fields o
Title(o) ==
    IF o.entity_type = "item" THEN <<"Item:">> \o o.entity_id
    ELSE <<"Property:">> \o o.entity_id

\* the ApiError of api.entity.remove swallowed
RemoveSwallow(title, fail) ==
    IF fail \/ ~PageExists(title)
    THEN [remote |-> "ApiError", err |-> "none", store |-> store]
    ELSE [remote |-> "ok", err |-> "none",
          store |-> [id \in DOMAIN store \ {Tail(title)} |-> store[id]]]

\* api.entity.remove(title) and what delete() makes of it; `fail` is the
\* remote store refusing a request it could serve
Remove(title, fail) ==
    IF fail \/ ~PageExists(title)
    THEN [remote |-> "ApiError", err |-> Reraised("delete"), store |-> store]
    ELSE [remote |-> "ok", err |-> "none",
          store |-> [id \in DOMAIN store \ {Tail(title)} |-> store[id]]]

\* Entity.delete; concatenating the title with an entity_id of None raises
\* TypeError
Entity_delete(self, fail) ==
    LET call == [NoCall EXCEPT !.op = "delete", !.self = self]
    IN
    /\ Call
    /\ IF objs[self].entity_id = NoId
       THEN /\ last' = [call EXCEPT !.err = "TypeError"]
            /\ store' = store
       ELSE LET r == Remove(Title(objs[self]), fail)
            IN  /\ last' = [call EXCEPT !.remote = r.remote, !.calls = 1,
                                        !.err = r.err]
                /\ store' = r.store
    /\ UNCHANGED <<objs, language, nextNum, created>>

\* ------------------------------------------------------------ the callers
\* entity_ids lists without a repeated id (the response is keyed by id)
IdLists(n) ==
    {s \in [1..n -> AllIds] : \A i, j \in 1..n : i # j => s[i] # s[j]}

\* get() on the instance's own id, or get([id])
SingleLists == IdLists(0) \cup IdLists(1)

\* get([id1, ..., idn]) for 2 <= n <= MaxBatch
BatchLists == UNION {IdLists(n) : n \in 2..MaxBatch}

\* attributes arguments: the default (every attribute) or none of them
PlainAttributes == {AttributeNames, {}}

\* the orders in which the response can list the requested ids
Orders(self, entity_ids) ==
    LET ids == IF entity_ids = <<>> THEN <<objs[self].entity_id>> ELSE entity_ids
        idSet == {ids[i] : i \in 1..Len(ids)}
    IN  {s \in [1..Cardinality(idSet) -> idSet] :
            \A i, j \in 1..Len(s) : i # j => s[i] # s[j]}

\* the calls a caller makes, with get() drawn from the given argument sets
Calls(lists, attributeSets) ==
    \/ \E self \in 1..Len(objs), label \in Labels, fail \in BOOLEAN :
           Item_create(self, label, fail)
    \/ \E self \in 1..Len(objs), label \in Labels, data_type \in DataTypeArgs,
          fail \in BOOLEAN :
           Property_create(self, label, data_type, fail)
    \/ \E self \in 1..Len(objs), entity_ids \in lists, outcome \in FetchOutcomes :
           \E attributes \in (IF outcome = "ok" THEN attributeSets
                               ELSE {AttributeNames}),
              order \in Orders(self, entity_ids) :
               Entity_get(self, entity_ids, attributes, outcome, order)
    \/ \E self \in 1..Len(objs), fail \in BOOLEAN :
           Entity_delete(self, fail)

\* callers that fetch one entity at a time
Next == Calls(SingleLists, PlainAttributes)

Spec == Init /\ [][Next]_vars

\* callers that fetch in batches
NextBatch == Calls(BatchLists, {AttributeNames})

SpecBatch == Init /\ [][NextBatch]_vars

\* callers that fetch one entity at a time and ask for none, one or all of
\* description, aliases and claims
SelectiveAttributes ==
    {A \in SUBSET {"descriptions", "aliases", "claims"} : Cardinality(A) # 2}

NextAttrs == Calls(SingleLists, SelectiveAttributes)

SpecAttrs == Init /\ [][NextAttrs]_vars

\* ---------------------------------------------------------------- marshal
\* largest numeric id of the instances marshal() is applied to
MaxMarshalNum == 42

DigitValue(c) ==
    CASE c = "0" -> 0 [] c = "1" -> 1 [] c = "2" -> 2 [] c = "3" -> 3
      [] c = "4" -> 4 [] c = "5" -> 5 [] c = "6" -> 6 [] c = "7" -> 7
      [] c = "8" -> 8 [] c = "9" -> 9

IsDecimal(s) ==
    /\ s # <<>>
    /\ \A i \in 1..Len(s) :
         s[i] \in {"0", "1", "2", "3", "4", "5", "6", "7", "8", "9"}

\* the value of a non-empty string of decimal digits, most significant first
RECURSIVE StrToNat(_)
StrToNat(s) ==
    IF Len(s) = 1 THEN DigitValue(s[1])
    ELSE 10 * StrToNat(SubSeq(s, 1, Len(s) - 1)) + DigitValue(s[Len(s)])

\* Python's int(s) on the strings used here: the value of a string of
\* decimal digits, ValueError for the empty string and for any other
\* character
int(s) ==
    IF IsDecimal(s) THEN [err |-> "none", value |-> StrToNat(s)]
    ELSE [err |-> "ValueError", value |-> 0]

\* the slice s[2:]
FromThird(s) == SubSeq(s, 3, Len(s))

\* the slice s[1:]: the string without its first character
FromSecond(s) == SubSeq(s, 2, Len(s))

\* Entity.marshal on an instance with fields o: slicing an entity_id of
\* None raises TypeError; `value` holds the returned dictionary, with keys
\* entity_type and numeric_id for "entity-type" and "numeric-id"
marshal(o) ==
    IF o.entity_id = NoId
    THEN [err |-> "TypeError", value |-> <<>>]
    ELSE LET n == int(FromSecond(o.entity_id))
         IN  IF n.err # "none"
             THEN [err |-> n.err, value |-> <<>>]
             ELSE [err |-> "none",
                   value |-> <<[entity_type |-> o.entity_type,
                                numeric_id  |-> n.value]>>]

Entity_marshal(self) ==
    LET m == marshal(objs[self])
    IN
    /\ Call
    /\ last' = [NoCall EXCEPT !.op = "marshal", !.self = self,
                              !.err = m.err, !.marshalled = m.value]
    /\ UNCHANGED <<objs, language, store, nextNum, created>>

\* the entity ids of the instances marshal() is applied to: None, a prefix
\* with no digits, and a prefix followed by the digits of a number
MarshalIds ==
    {NoId, <<"Q">>}
      \cup {<<c>> \o NatToStr(n) : c \in {"Q", "P"}, n \in 0..MaxMarshalNum}

\* one instance of either type holding any of these ids
InitMarshal ==
    /\ objs \in {<<[NewEntity(t) EXCEPT !.entity_id = id]>> :
                    t \in EntityTypes, id \in MarshalIds}
    /\ language \in Languages
    /\ store = (MakeId("property", 1) :> PreProperty)
    /\ nextNum = [t \in EntityTypes |-> IF t = "item" THEN 1 ELSE 2]
    /\ created = <<>>
    /\ ncalls = 0
    /\ last = NoCall

NextMarshal == \E self \in DOMAIN objs : Entity_marshal(self)

SpecMarshal == InitMarshal /\ [][NextMarshal]_vars

\* ------------------------------------------------------------- properties
Range(s) == {s[i] : i \in 1..Len(s)}

\* the ids the remote store has handed out or held so far
Registered ==
    UNION {{MakeId(t, n) : n \in 1..(nextNum[t] - 1)} : t \in EntityTypes}

\* the last call was a get() that the remote store answered with success
Fetched == last.op = "get" /\ last.remote = "ok"

\* an attribute object reachable from instance r is also reachable from
\* another instance
SharesAttribute(r) ==
    \E f \in AttrFields : objs[r][f].present /\ objs[r][f].owner # r

\* C1: in a successful batch get() that asks for the calling instance's own
\* id among others, the returned element with that id is the calling
\* instance itself, filled from its envelope, and every other element is
\* another instance that shares no attribute object with a different instance
C1_BatchIdentity ==
    (/\ Fetched /\ last.err = "none" /\ Len(last.ids) >= 2
     /\ objs[last.self].entity_id \in Range(last.ids))
    => /\ \E i \in 1..Len(last.ret) : last.ret[i] = last.self
       /\ \A i \in 1..Len(last.ret) :
            LET r == last.ret[i]
            IN  IF objs[r].entity_id = objs[last.self].entity_id
                THEN /\ r = last.self
                     /\ objs[r].description.raw = store[objs[r].entity_id].descriptions
                     /\ objs[r].aliases.raw = store[objs[r].entity_id].aliases
                     /\ objs[r].claims.raw = store[objs[r].entity_id].claims
                     /\ ~SharesAttribute(r)
                ELSE /\ r # last.self
                     /\ ~SharesAttribute(r)

C1_Witness ==
    /\ Fetched /\ last.err = "none" /\ Len(last.ids) = 2
    /\ objs[last.self].entity_id \in Range(last.ids)
    /\ Len(last.ret) = 2
    /\ \A i \in 1..2 : objs[last.ret[i]].label.present

\* C2: a successful get() that fetched the labels of an item made by
\* Item.create(L) returns for it an entity whose label is L in the working
\* language
C2_CreateGetRoundTrip ==
    (Fetched /\ last.err = "none" /\ "labels" \in last.attributes)
    => \A i \in 1..Len(last.ret) :
         LET r == last.ret[i]
             id == objs[r].entity_id
         IN  (id \in DOMAIN created /\ Head(id) = "Q")
             => /\ objs[r].label.present
                /\ objs[r].label.raw =
                      {[language |-> language, value |-> created[id]]}

\* C3: get([id]) for an id the remote store never registered, answered by
\* the store, raises NotFoundError naming the id and returns nothing,
\* whatever the kind of the calling instance
C3_UnregisteredNotFound ==
    (Fetched /\ Len(last.ids) = 1 /\ last.ids[1] \notin Registered)
    => /\ last.err = "NotFoundError"
       /\ last.errId = last.ids[1]
       /\ last.ret = <<>>

C3_Witness ==
    /\ Fetched /\ Len(last.ids) = 1 /\ last.ids[1] \notin Registered
    /\ last.err = "NotFoundError"
    /\ objs[last.self].entity_type = "property"
    /\ Head(last.ids[1]) = "Q"

\* the place in the response of the first id the store does not have
FirstMissing ==
    CHOOSE k \in 1..Len(last.order) :
        /\ last.order[k] \notin DOMAIN store
        /\ \A j \in 1..(k - 1) : last.order[j] \in DOMAIN store

\* decoding the envelope of `id` for the calling instance stops at the
\* datatype lookup
DatatypeUnknown(id) ==
    /\ objs[last.self].entity_type = "property"
    /\ "datatype" \in last.attributes
    /\ id \in DOMAIN store
    /\ store[id].type = "property"
    /\ store[id].datatype \notin DOMAIN data_type_to_class

\* a batch get() the store answered while lacking one of the ids
MissingInBatch ==
    /\ Fetched /\ Len(last.ids) >= 2
    /\ \E i \in 1..Len(last.ids) : last.ids[i] \notin DOMAIN store

DeletedIds == DOMAIN created \ DOMAIN store

\* C5: once a created entity has been deleted, a get() for its id that the
\* store answers raises NotFoundError naming it, and a delete() on an
\* instance carrying its id raises EditError
C5_AfterDelete ==
    [][/\ (/\ last'.op = "get" /\ last'.remote = "ok" /\ ncalls' = ncalls + 1
            /\ \E d \in DeletedIds :
                  \/ last'.ids = <<d>>
                  \/ last'.ids = <<>> /\ objs[last'.self].entity_id = d)
           => /\ last'.err = "NotFoundError"
              /\ last'.errId \in DeletedIds
              /\ last'.ret = <<>>
       /\ (/\ last'.op = "delete" /\ ncalls' = ncalls + 1
            /\ objs[last'.self].entity_id \in DeletedIds)
           => /\ last'.err = "EditError"
              /\ last'.calls = 1]_vars

C5_Witness ==
    /\ last.op = "get" /\ last.remote = "ok" /\ last.ids = <<>>
    /\ objs[last.self].entity_id \in DeletedIds
    /\ last.err = "NotFoundError"

C5_WitnessSecondDelete ==
    /\ last.op = "delete" /\ last.err = "EditError" /\ last.remote = "ApiError"
    /\ objs[last.self].entity_id \in DeletedIds

\* C6: get() without entity_ids on an instance without entity_id raises
\* the ValueError of the precondition check and makes no remote call
C6_GetNeedsId ==
    (last.op = "get" /\ last.ids = <<>> /\ objs[last.self].entity_id = NoId)
    => /\ last.err = "ValueError"
       /\ last.calls = 0
       /\ last.remote = "none"
       /\ last.ret = <<>>

C6_Witness ==
    /\ last.op = "get" /\ last.ids = <<>> /\ objs[last.self].entity_id = NoId
    /\ last.err = "ValueError"

\* C7 as claimed: delete() on an instance without entity_id raises the
\* precondition error (the ValueError get() raises) and makes no remote call
C7_DeleteNeedsId ==
    (last.op = "delete" /\ objs[last.self].entity_id = NoId)
    => /\ last.err = "ValueError"
       /\ last.calls = 0

\* C8: Property.create with a data_type outside class_to_data_type raises
\* ValueError and makes no remote call
C8_InvalidDataType ==
    (last.op = "Property.create" /\ last.data_type \notin DOMAIN class_to_data_type)
    => /\ last.err = "ValueError"
       /\ last.calls = 0
       /\ last.remote = "none"

C8_Witness ==
    /\ last.op = "Property.create"
    /\ last.data_type \notin DOMAIN class_to_data_type
    /\ last.err = "ValueError"

\* C9 as claimed: an entity_id that is set is never replaced by another id
C9_IdNeverReassigned ==
    [][\A o \in 1..Len(objs) :
          objs[o].entity_id # NoId => objs'[o].entity_id = objs[o].entity_id]_vars

\* C10 as claimed: every Property instance has a data_type and no Item
\* instance has one
C10_Original ==
    \A o \in 1..Len(objs) :
        IF objs[o].entity_type = "property"
        THEN objs[o].data_type # None
        ELSE objs[o].data_type = None

ItemWithoutDataType ==
    \A o \in 1..Len(objs) :
        objs[o].entity_type = "item" => objs[o].data_type = None

\* C10 amended: no Item instance ever has a data_type; a Property instance
\* has none when constructed, has the data_type it was given once its
\* create() passed the validation, and never loses a data_type it has
DataTypeStep ==
    /\ \A o \in 1..Len(objs) :
         objs[o].data_type # None => objs'[o].data_type # None
    /\ (/\ last'.op = "Property.create" /\ ncalls' = ncalls + 1
         /\ last'.err # "ValueError")
        => objs'[last'.self].data_type = last'.data_type

C10_DataTypeByVariant ==
    []ItemWithoutDataType /\ [][DataTypeStep]_vars

C10_Witness ==
    \E p, i \in 1..Len(objs) :
        /\ objs[p].entity_type = "property"
        /\ objs[p].entity_id # NoId
        /\ objs[p].entity_id \in DOMAIN store
        /\ objs[p].data_type \in DOMAIN class_to_data_type
        /\ class_to_data_type[objs[p].data_type] = store[objs[p].entity_id].datatype
        /\ objs[i].entity_type = "item"
        /\ objs[i].entity_id = objs[p].entity_id
        /\ objs[i].data_type = None

\* the last call was a create() that returned
CreateReturned ==
    last.op \in {"Item.create", "Property.create"} /\ last.err = "none"

\* the id the remote store assigned last to an entity of the given type
LastAssigned(entity_type) == MakeId(entity_type, nextNum[entity_type] - 1)

\* C11: after a create() that returned, the instance has the id the remote
\* store assigned, the label the store returned for the new entity (the
\* label passed in, in the working language), and a description, aliases
\* and claims that are present and empty
C11_CreateFillsInstance ==
    CreateReturned
    => LET o == objs[last.self]
           id == LastAssigned(o.entity_type)
       IN  /\ last.ret = <<last.self>>
           /\ o.entity_id = id
           /\ id \in DOMAIN store
           /\ o.label.present
           /\ o.label.raw = store[id].labels
           /\ o.label.raw = {[language |-> language, value |-> created[id]]}
           /\ \A f \in {"description", "aliases", "claims"} :
                 /\ o[f].present
                 /\ o[f].raw = {}
                 /\ o[f].entity_id = id
                 /\ o[f].owner = last.self

C11_Witness ==
    /\ CreateReturned
    /\ last.op = "Property.create"
    /\ objs[last.self].entity_id = MakeId("property", 2)
    /\ objs[last.self].description.present
    /\ objs[last.self].description.raw = {}

\* C12: a remote call that fails never surfaces as the ApiError of the
\* transport: a failing add (create) or remove (delete) surfaces as
\* EditError and a failing fetch (get) as SearchError
C12_RemoteFailureReraised ==
    last.remote = "ApiError"
    => /\ last.err # "ApiError"
       /\ last.op \in {"Item.create", "Property.create", "delete"}
            => last.err = "EditError"
       /\ last.op = "get" => last.err = "SearchError"

C12_WitnessCreate ==
    /\ last.op = "Item.create" /\ last.remote = "ApiError"
    /\ last.err = "EditError"

C12_Witness ==
    /\ last.op = "get" /\ last.remote = "ApiError" /\ last.err = "SearchError"
    /\ \E r \in DOMAIN objs : objs[r].entity_id # NoId

\* C13: a get() of a Property instance that decodes an envelope whose
\* datatype is not a key of data_type_to_class fails with SearchError
C13_UnknownDataTypeSearchError ==
    (Fetched /\ Len(last.order) = 1 /\ DatatypeUnknown(last.order[1]))
    => last.err = "SearchError"

\* a get() step whose response lacks the success marker or carries a marker
\* other than 1 raises SearchError, returns nothing and changes no instance
C14_Step ==
    (/\ ncalls' = ncalls + 1
     /\ last'.op = "get"
     /\ last'.remote \in {"no success", "success 0"})
    => /\ last'.err = "SearchError"
       /\ last'.ret = <<>>
       /\ objs' = objs

\* C14: when the fetch response has no success marker, or a marker whose
\* value is not 1, get() fails with SearchError and decodes no entity of
\* the response
C14_SuccessMarker == [][C14_Step]_vars

C14_Witness ==
    /\ last.op = "get" /\ last.remote = "success 0" /\ last.err = "SearchError"
    /\ Len(last.ids) = 1 /\ last.ids[1] \in DOMAIN store
    /\ last.calls = 1

C14_WitnessNoMarker ==
    /\ last.op = "get" /\ last.remote = "no success" /\ last.err = "SearchError"
    /\ last.ids = <<>> /\ objs[last.self].entity_id \in DOMAIN store

\* C15: no call of create(), get() or delete() makes more than one remote
\* call, whether it returns or raises, and a get() that reaches the remote
\* store makes exactly one fetch call whatever the number of ids
C15_OneRemoteCall ==
    /\ last.calls <= 1
    /\ (last.op = "get" /\ last.remote # "none") => last.calls = 1
    /\ last.remote = "ApiError" => last.calls = 1

C15_Witness ==
    /\ Fetched /\ last.err = "none"
    /\ Len(last.ids) = 2 /\ Len(last.ret) = 2
    /\ last.calls = 1

C15_WitnessFailure ==
    /\ last.op = "get" /\ last.remote = "ApiError"
    /\ Len(last.ids) = 2 /\ last.calls = 1

\* C16: marshal() on an instance of type K whose entity_id is one letter
\* followed by the decimal digits of n returns the dictionary with
\* entity-type K and numeric-id n ("Q42" on an item gives item and 42, "P7"
\* on a property gives property and 7); with entity_id None it raises an
\* error and returns nothing
C16_Marshal ==
    last.op = "marshal"
    => LET o == objs[last.self]
       IN  /\ o.entity_id = NoId
                => last.err # "none" /\ last.marshalled = <<>>
           /\ \A c \in {"Q", "P"}, n \in 0..MaxMarshalNum :
                 o.entity_id = <<c>> \o NatToStr(n)
                 => /\ last.err = "none"
                    /\ last.marshalled =
                         <<[entity_type |-> o.entity_type, numeric_id |-> n]>>
           /\ (o.entity_type = "item" /\ o.entity_id = <<"Q", "4", "2">>)
                => last.marshalled =
                     <<[entity_type |-> "item", numeric_id |-> 42]>>
           /\ (o.entity_type = "property" /\ o.entity_id = <<"P", "7">>)
                => last.marshalled =
                     <<[entity_type |-> "property", numeric_id |-> 7]>>

C16_Witness ==
    /\ last.op = "marshal" /\ last.err = "none"
    /\ objs[last.self].entity_type = "item"
    /\ objs[last.self].entity_id = <<"Q", "4", "2">>
    /\ last.marshalled[1].numeric_id = 42

C16_WitnessUnset ==
    /\ last.op = "marshal" /\ objs[last.self].entity_id = NoId
    /\ last.err = "TypeError" /\ last.marshalled = <<>>

\* C17: after a get() that returned and whose envelopes carried labels,
\* every returned entity has a label, decoded from the labels of its own
\* envelope, whether the calling instance had no label or another one
C17_LabelDecoded ==
    (Fetched /\ last.err = "none" /\ "labels" \in last.attributes)
    => \A i \in 1..Len(last.ret) :
         LET o == objs[last.ret[i]]
         IN  /\ o.label.present
             /\ o.label.entity_id = o.entity_id
             /\ o.label.raw = store[o.entity_id].labels

\* the attribute fields get() decodes besides the label, with their keys
OtherAttributes ==
    {<<"description", "descriptions">>, <<"aliases", "aliases">>,
     <<"claims", "claims">>}

\* the step is a get() of the calling instance's own id that returned
OwnGetStep ==
    /\ ncalls' = ncalls + 1
    /\ last'.op = "get" /\ last'.remote = "ok" /\ last'.err = "none"
    /\ Len(last'.order) = 1
    /\ last'.order[1] = objs[last'.self].entity_id

C18_Step ==
    OwnGetStep
    => LET self == last'.self
           id == objs[self].entity_id
           entity == Envelope(id, last'.attributes)
       IN  /\ last'.ret = <<self>>
           /\ \A a \in OtherAttributes :
                 IF a[2] \in DOMAIN entity
                 THEN objs'[self][a[1]] = unmarshal(self, id, entity[a[2]])
                 ELSE objs'[self][a[1]] = objs[self][a[1]]

\* C18: a get() of the calling instance's own id that returns sets each of
\* description, aliases and claims from the envelope exactly when the
\* envelope has the attribute's key, and leaves each of the three whose key
\* the envelope lacks as it was before the call, loaded or None
C18_SelectiveDecode == [][C18_Step]_vars

\* a get() of the own id that asked for the aliases alone: the description
\* loaded by an earlier call is kept, the claims stay None
C18_Witness ==
    /\ Fetched /\ last.err = "none"
    /\ last.attributes = {"aliases"}
    /\ last.ret = <<last.self>>
    /\ objs[last.self].aliases.present
    /\ objs[last.self].aliases.raw # {}
    /\ objs[last.self].description.present
    /\ objs[last.self].description.raw # {}
    /\ ~objs[last.self].claims.present

\* C19: an entity a get() returns for an id that is not the calling
\* instance's own has a label, description, aliases, claims or data_type
\* only if the envelope of its id had the attribute's key, and what it has
\* belongs to its own id, not to the entity of the calling instance
C19_NoCarryOver ==
    (Fetched /\ last.err = "none")
    => \A i \in 1..Len(last.ret) :
         LET r == last.ret[i]
             o == objs[r]
             entity == Envelope(o.entity_id, last.attributes)
         IN  r # last.self
             => /\ \A a \in OtherAttributes \cup {<<"label", "labels">>} :
                      o[a[1]].present
                      => /\ a[2] \in DOMAIN entity
                         /\ o[a[1]].entity_id = o.entity_id
                /\ o.data_type # None => "datatype" \in DOMAIN entity

\* a call that raises one of the errors of the interface leaves every field
\* of the calling instance as it was
C20_Step ==
    (/\ ncalls' = ncalls + 1
     /\ last'.op \in {"Item.create", "Property.create", "get", "delete"}
     /\ last'.err \in {"ValueError", "EditError", "SearchError", "NotFoundError"})
    => objs'[last'.self] = objs[last'.self]

\* C20: whenever create(), get() or delete() raises ValueError, EditError,
\* SearchError or NotFoundError, the calling instance's entity_id, label,
\* description, aliases, claims and data_type are what they were before the
\* call
C20_FailureLeavesInstance == [][C20_Step]_vars
====
